---- MODULE Spec2Model ----
(***************************************************************************)
(* State-machine model of video/filter/vf_lavfi.c: the adapter between the *)
(* player's video filter stage (struct vf_instance) and a libavfilter      *)
(* graph.  The adapter's private struct is the record p; the live          *)
(* AVFilterGraph object owned by the engine is the record graph_obj.       *)
(* Every answer of the engine (graph construction, buffer source, buffer   *)
(* sink, command dispatch) is an input drawn with \E.                      *)
(***************************************************************************)
EXTENDS Integers, Sequences, FiniteSets, TLC

VARIABLES
    build,       \* "ffmpeg" (LIB*_VERSION_MICRO >= 100) or "libav": fixed at compile time
    host,        \* the caller's view of the instance: "created", "opened", "configured", "native"
    vf,          \* struct vf_instance: priv, the callbacks, fmt_in, the hw frame references
    p,           \* struct vf_priv_s
    graph_obj,   \* the live AVFilterGraph (id 0: none), as the engine sees it
    hw_refs,     \* per hardware frames context: references the instance holds through out_hwframes_ref
    crashed,     \* a callback dereferenced a null filter context
    hist,        \* what has happened to the current graph instance so far
    last         \* the last call: operation, arguments, result, what crossed the boundary

vars == <<build, host, vf, p, graph_obj, hw_refs, crashed, hist, last>>

----------------------------------------------------------------------------
(* Bounds and program constants *)

\* Width, in bits, at which int64_t / uint64_t timestamps are modelled.
IntBits == 24

\* End-of-stream signals followed per graph instance.
MaxEos == 2

\* AV_TIME_BASE of AV_TIME_BASE_Q, the buffer source's time base.
AV_TIME_BASE == 1000000

Pow2(n) == 2 ^ n

\* AV_NOPTS_VALUE is INT64_MIN, here the least value of the modelled width.
AV_NOPTS_VALUE == -Pow2(IntBits - 1)

----------------------------------------------------------------------------
(* double and AVRational arithmetic.  A double is an exact fraction [n, d] *)
(* in lowest terms with d > 0.                                             *)

RECURSIVE Gcd(_, _)
Gcd(a, b) == IF b = 0 THEN a ELSE Gcd(b, a % b)

Abs(a) == IF a < 0 THEN -a ELSE a

Dbl(n, d) ==
    LET s == IF d < 0 THEN -1 ELSE 1
        g == Gcd(Abs(n), Abs(d))
    IN  [n |-> (s * n) \div g, d |-> (s * d) \div g]

\* MP_NOPTS_VALUE is the double -0x1p+63.
MP_NOPTS_VALUE == Dbl(AV_NOPTS_VALUE, 1)

av_inv_q(q) == [num |-> q.den, den |-> q.num]

av_q2d(q) == Dbl(q.num, q.den)

DblMul(a, b) == Dbl(a.n * b.n, a.d * b.d)

IntToDbl(i) == Dbl(i, 1)

\* The integral part of a double (C discards the fraction: toward zero).
Trunc(a) == IF a.n >= 0 THEN a.n \div a.d ELSE -((-a.n) \div a.d)

\* double -> uint64_t.  A value whose integral part is not representable is
\* undefined behaviour: the set holds what builds produce (the two's
\* complement wrap of SSE2 cvttsd2si, the saturation of AArch64 fcvtzu).
DblToUint64(a) ==
    LET t == Trunc(a)
    IN  IF 0 <= t /\ t < Pow2(IntBits) THEN {t}
        ELSE {t % Pow2(IntBits), IF t < 0 THEN 0 ELSE Pow2(IntBits) - 1}

\* uint64_t -> int64_t, the assignment frame->pts = pts.
Uint64ToInt64(u) == IF u >= Pow2(IntBits - 1) THEN u - Pow2(IntBits) ELSE u

AV_TIME_BASE_Q == [num |-> 1, den |-> AV_TIME_BASE]

----------------------------------------------------------------------------
(* Pixel formats on both sides of the boundary *)

imgfmt2pixfmt(fmt) ==
    CASE fmt = "IMGFMT_420P"  -> "AV_PIX_FMT_YUV420P"
      [] fmt = "IMGFMT_NV12"  -> "AV_PIX_FMT_NV12"
      [] fmt = "IMGFMT_VAAPI" -> "AV_PIX_FMT_VAAPI"
      [] OTHER                -> "AV_PIX_FMT_NONE"

pixfmt2imgfmt(fmt) ==
    CASE fmt = "AV_PIX_FMT_YUV420P" -> "IMGFMT_420P"
      [] fmt = "AV_PIX_FMT_NV12"    -> "IMGFMT_NV12"
      [] fmt = "AV_PIX_FMT_VAAPI"   -> "IMGFMT_VAAPI"
      [] OTHER                      -> "IMGFMT_NONE"

\* A zeroed struct mp_image_params.
NoParams ==
    [imgfmt |-> "IMGFMT_NONE", hw_subfmt |-> "IMGFMT_NONE",
     w |-> 0, h |-> 0, p_w |-> 0, p_h |-> 0, rotate |-> 0]

\* The parameters the caller configures the filter with.
InParams ==
    { [imgfmt |-> "IMGFMT_420P", hw_subfmt |-> "IMGFMT_NONE",
       w |-> 4, h |-> 2, p_w |-> 1, p_h |-> 1, rotate |-> 0],
      [imgfmt |-> "IMGFMT_VAAPI", hw_subfmt |-> "IMGFMT_NV12",
       w |-> 8, h |-> 6, p_w |-> 4, p_h |-> 3, rotate |-> 90] }

\* AVHWFramesContext objects: id 0 is the null AVBufferRef.
HwCtxIds == {1, 2}

sw_format(ctx) == IF ctx = 1 THEN "AV_PIX_FMT_NV12" ELSE "AV_PIX_FMT_YUV420P"

\* What a configured graph can report on the buffer sink's input link.
SinkLinks ==
    { [w |-> 3, h |-> 5, sample_aspect_ratio |-> [num |-> 1, den |-> 2],
       format |-> "AV_PIX_FMT_NV12", time_base |-> [num |-> 1, den |-> 25],
       hw_frames_ctx |-> 0],
      [w |-> 7, h |-> 7, sample_aspect_ratio |-> [num |-> 0, den |-> 1],
       format |-> "AV_PIX_FMT_VAAPI", time_base |-> [num |-> 1, den |-> 25],
       hw_frames_ctx |-> 2] }

\* Filters registered with the engine (avfilter_next).
RegisteredFilters == {"buffer", "buffersink", "rotate", "yadif"}

----------------------------------------------------------------------------
(* struct vf_priv_s *)

NoRational == [num |-> 0, den |-> 0]

\* static const struct vf_priv_s vf_priv_dflt (pointers null, flags false).
vf_priv_dflt ==
    [graph |-> 0, in |-> 0, out |-> 0, eof |-> FALSE,
     timebase_in |-> NoRational, timebase_out |-> NoRational, par_in |-> NoRational,
     metadata |-> <<>>,
     old_priv |-> "NULL", lw_reconfig_cb |-> "NULL",
     cfg_graph |-> ""]

\* No live AVFilterGraph.  Of a live one the model keeps what the adapter
\* can still observe or change after construction: its identity, the sample
\* aspect ratio of the source's output link, the end-of-stream signals the
\* source has received, and whether the sink has reported end of stream.
NoGraph ==
    [id |-> 0, sample_aspect_ratio |-> NoRational, eos |-> 0, sink_eof |-> FALSE]

\* Identity of a newly allocated graph: never that of the instance freed last.
NewGraphId(old) == IF old = 1 THEN 2 ELSE 1

\* avfilter_graph_alloc .. avfilter_graph_config: what the graph was built
\* from (the graph string, in_params) and its links.  The buffer source's
\* output link carries the time base and sample aspect ratio of in_params.
Built(id, filters, fmt, in_hw, link) ==
    [graph |-> id, filters |-> filters,
     format |-> imgfmt2pixfmt(fmt.imgfmt), w |-> fmt.w, h |-> fmt.h,
     sample_aspect_ratio |-> [num |-> fmt.p_w, den |-> fmt.p_h],
     time_base |-> AV_TIME_BASE_Q,
     hw_frames_ctx |-> in_hw,
     l_in |-> [time_base |-> AV_TIME_BASE_Q,
               sample_aspect_ratio |-> [num |-> fmt.p_w, den |-> fmt.p_h]],
     l_out |-> link]

NewGraph(b) ==
    [id |-> b.graph, sample_aspect_ratio |-> b.l_in.sample_aspect_ratio,
     eos |-> 0, sink_eof |-> FALSE]

\* Mutant: p->in and p->out are not reset.
destroy_graph_keeps_nodes(pp) ==
    [pp EXCEPT !.graph = 0, !.metadata = <<>>, !.eof = FALSE]

\* Mutant: p->eof is not cleared.
destroy_graph_keeps_eof(pp) ==
    [pp EXCEPT !.graph = 0, !.in = 0, !.out = 0, !.metadata = <<>>]

\* Mutant: the metadata is not freed.
destroy_graph_keeps_metadata(pp) ==
    [pp EXCEPT !.graph = 0, !.in = 0, !.out = 0, !.eof = FALSE]

\* destroy_graph: the adapter's side (the graph object itself is freed by
\* avfilter_graph_free: the callers' NoGraph).
destroy_graph(pp) ==
    [pp EXCEPT !.graph = 0, !.in = 0, !.out = 0, !.metadata = <<>>, !.eof = FALSE]

\* Mutant: a failed construction leaves the previous graph in place.
recreate_graph_keeps_on_error(pp, g, fmt, in_hw) ==
    IF Len(pp.cfg_graph) = 0
    THEN {[ret |-> FALSE, p |-> pp, g |-> g, built |-> <<>>]}
    ELSE {[ret |-> FALSE, p |-> pp, g |-> g, built |-> <<>>]}
         \cup
         {LET b == Built(NewGraphId(g.id), pp.cfg_graph, fmt, in_hw, link)
          IN  [ret |-> TRUE,
               p |-> [destroy_graph(pp) EXCEPT !.in = b.graph, !.out = b.graph,
                                               !.graph = b.graph],
               g |-> NewGraph(b),
               built |-> <<b>>] : link \in SinkLinks}

\* recreate_graph: the outcomes [ret, p, g, built] from the private struct
\* pp, the live graph g, the input parameters and the input hardware frames
\* reference.  The engine either fails at one of the "goto error" sites or
\* configures a graph with one of the sink links.
recreate_graph(pp, g, fmt, in_hw) ==
    IF Len(pp.cfg_graph) = 0
    THEN {[ret |-> FALSE, p |-> pp, g |-> g, built |-> <<>>]}
    ELSE {[ret |-> FALSE, p |-> destroy_graph(pp), g |-> NoGraph, built |-> <<>>]}
         \cup
         {LET b == Built(NewGraphId(g.id), pp.cfg_graph, fmt, in_hw, link)
          IN  [ret |-> TRUE,
               p |-> [destroy_graph(pp) EXCEPT !.in = b.graph, !.out = b.graph,
                                               !.graph = b.graph],
               g |-> NewGraph(b),
               built |-> <<b>>] : link \in SinkLinks}

\* reset: recreate the graph from vf->fmt_in when there is one.
reset(pp, g, v) ==
    IF pp.graph # 0 /\ v.fmt_in.imgfmt # "IMGFMT_NONE"
    THEN recreate_graph(pp, g, v.fmt_in, v.in_hwframes_ref)
    ELSE {[ret |-> FALSE, p |-> pp, g |-> g, built |-> <<>>]}

----------------------------------------------------------------------------
(* Frames and their conversion *)

\* struct mp_image as far as the adapter reads it: the timestamp, a double.
InFrames ==
    { [pts |-> MP_NOPTS_VALUE], [pts |-> Dbl(3, 2)] }

\* AVFrame as the buffer sink hands it out.
SinkFrames ==
    { [pts |-> AV_NOPTS_VALUE, metadata |-> {"lavfi.scene_score"}],
      [pts |-> 50, metadata |-> {"lavfi.scene_score"}] }

\* mp_to_av: the AVFrames (<<>>: NULL) the conversion of mpi (<<>>: NULL) can
\* yield.  The ?: has type double, so AV_NOPTS_VALUE too reaches the
\* uint64_t pts through a double -> uint64_t conversion.  NULL is also what
\* mp_image_to_av_frame_and_unref returns when out of memory.
mp_to_av(pp, mpi) ==
    IF mpi = <<>> THEN {<<>>}
    ELSE LET d == IF mpi[1].pts = MP_NOPTS_VALUE
                  THEN IntToDbl(AV_NOPTS_VALUE)
                  ELSE DblMul(mpi[1].pts, av_q2d(av_inv_q(pp.timebase_in)))
         IN  {<<>>} \cup
             {<<[pts |-> Uint64ToInt64(u),
                 sample_aspect_ratio |-> pp.par_in]>> : u \in DblToUint64(d)}

\* av_to_mp: the mp_images (<<>>: NULL, mp_image_from_av_frame out of memory).
av_to_mp(pp, av_frame) ==
    {<<>>} \cup
    {<<[pts |-> IF av_frame.pts = AV_NOPTS_VALUE THEN MP_NOPTS_VALUE
                ELSE DblMul(IntToDbl(av_frame.pts), av_q2d(pp.timebase_out))]>>}

\* get_metadata_from_av_frame: compiled to nothing unless LIBAVUTIL_VERSION_MICRO >= 100.
get_metadata_from_av_frame(b, pp, frame) ==
    IF b = "ffmpeg"
    THEN [pp EXCEPT !.metadata =
            <<(IF pp.metadata = <<>> THEN {} ELSE pp.metadata[1]) \cup frame.metadata>>]
    ELSE pp

----------------------------------------------------------------------------
(* struct vf_instance and the calls that install the adapter *)

LavfiCallbacks ==
    [reconfig |-> "reconfig", filter_ext |-> "filter_ext", filter_out |-> "filter_out",
     filter |-> "NULL", query_format |-> "query_format", control |-> "control",
     uninit |-> "uninit"]

\* Callbacks of a filter that has not run vf_open: unset, or those an old
\* filter installed itself before asking for the wrapper.
UnsetCallbacks == [c \in DOMAIN LavfiCallbacks |-> "NULL"]

OldCallbacks == [c \in DOMAIN LavfiCallbacks |-> "old_filter"]

NewInstance(priv, cb) ==
    [priv |-> priv, cb |-> cb, fmt_in |-> NoParams,
     in_hwframes_ref |-> 0, out_hwframes_ref |-> 0]

\* Mutant: vf->filter is left as it was.
vf_open_keeps_filter(v) ==
    [v EXCEPT !.cb = [LavfiCallbacks EXCEPT !.filter = v.cb.filter]]

\* vf_open: install every callback.
vf_open(v) == [v EXCEPT !.cb = LavfiCallbacks]

have_filter(name) == name \in RegisteredFilters

\* "%s=%s" of filter and the formatted options, or the options alone.
GraphString(filter, s) == IF filter # <<>> THEN filter[1] \o "=" \o s ELSE s

\* vf_lw_set_graph: [ret, vf, p].  filter is <<>> for NULL.
vf_lw_set_graph(v, pp, filter, s) ==
    IF filter # <<>> /\ ~have_filter(filter[1])
    THEN [ret |-> -1, vf |-> v, p |-> pp]
    ELSE [ret |-> 1,
          vf |-> vf_open([v EXCEPT !.priv = "lavfi_priv"]),
          p |-> [vf_priv_dflt EXCEPT !.cfg_graph = GraphString(filter, s),
                                     !.old_priv = v.priv]]

vf_lw_old_priv(pp) == pp.old_priv

vf_lw_update_graph(pp, filter, s) == [pp EXCEPT !.cfg_graph = GraphString(filter, s)]

vf_lw_set_reconfig_cb(pp, cb) == [pp EXCEPT !.lw_reconfig_cb = cb]

----------------------------------------------------------------------------
(* The record of the last call: the operation, its arguments and result,   *)
(* what it passed to the engine and to the caller, and the facts about the *)
(* state it started from.                                                   *)

NoCall ==
    [op |-> "none", ret |-> 0, res |-> "none",
     pre |-> [eof |-> FALSE, graph |-> 0, metadata |-> FALSE],
     filter |-> <<>>, mpi |-> <<>>, sub |-> <<>>,
     sink |-> "none", got |-> <<>>, added |-> <<>>, cmd |-> <<>>,
     built |-> <<>>, out |-> <<>>, old_ref |-> 0, cb |-> <<>>]

----------------------------------------------------------------------------
(* Engine calls *)

\* av_buffersrc_add_frame on the source of g: a NULL frame is the
\* end-of-stream signal.
av_buffersrc_add_frame(g, frame) ==
    IF frame = <<>> THEN [g EXCEPT !.eos = @ + 1] ELSE g

\* What av_buffersink_get_frame can answer.
SinkAnswers ==
    {[err |-> e, frame |-> <<>>] : e \in {"EAGAIN", "AVERROR_EOF", "AVERROR_EINVAL"}}
        \cup {[err |-> "OK", frame |-> <<f>>] : f \in SinkFrames}

\* Results of avfilter_graph_send_command in the engine.
CommandResults == {-1, 0}

\* avfilter_graph_send_command(graph, "all", ...): [res, sent].  With Libav
\* it is the macro "-1" and nothing reaches the engine.
avfilter_graph_send_command(b, graph) ==
    IF b = "ffmpeg"
    THEN {[res |-> e, sent |-> <<[graph |-> graph, target |-> "all"]>>] :
             e \in CommandResults}
    ELSE {[res |-> -1, sent |-> <<>>]}

av_buffer_unref(refs, ref) ==
    IF ref = 0 THEN refs ELSE [refs EXCEPT ![ref] = @ - 1]

av_buffer_ref(refs, ctx) == [refs EXCEPT ![ctx] = @ + 1]

----------------------------------------------------------------------------
(* The callbacks, as functions of the state they read.  Each yields the    *)
(* set of outcomes the engine's answers and the build allow.               *)

\* What the wrapper's reconfig callback can do: fail, or install a new graph
\* string with vf_lw_update_graph and adjust *out.
CbOutcomes ==
    { [ret |-> -1, upd |-> <<>>, rotate |-> -1],
      [ret |-> 0, upd |-> <<[filter |-> <<"rotate">>, s |-> "PI"]>>, rotate |-> 180],
      [ret |-> 0, upd |-> <<[filter |-> <<>>, s |-> ""]>>, rotate |-> -1] }

\* No callback is set.
NoCb == [ret |-> 0, upd |-> <<>>, rotate |-> -1]

\* Mutant: the size is not taken from the sink's link.
out_params_keeps_size(out1, l_out) ==
    [out1 EXCEPT
        !.p_w = l_out.sample_aspect_ratio.num,
        !.p_h = l_out.sample_aspect_ratio.den,
        !.imgfmt = pixfmt2imgfmt(l_out.format),
        !.hw_subfmt = IF l_out.hw_frames_ctx # 0
                      THEN pixfmt2imgfmt(sw_format(l_out.hw_frames_ctx))
                      ELSE out1.hw_subfmt]

\* reconfig's writes to *out once the graph is built: out1 is *out as the
\* callback left it, l_out the sink's input link.
out_params(out1, l_out) ==
    [out1 EXCEPT
        !.w = l_out.w, !.h = l_out.h,
        !.p_w = l_out.sample_aspect_ratio.num,
        !.p_h = l_out.sample_aspect_ratio.den,
        !.imgfmt = pixfmt2imgfmt(l_out.format),
        !.hw_subfmt = IF l_out.hw_frames_ctx # 0
                      THEN pixfmt2imgfmt(sw_format(l_out.hw_frames_ctx))
                      ELSE out1.hw_subfmt]

\* Mutant: the old reference is not released.
out_hwframes_no_unref(refs, old, hw) ==
    [ref |-> hw, refs |-> IF hw # 0 THEN av_buffer_ref(refs, hw) ELSE refs]

\* reconfig's handling of vf->out_hwframes_ref: [ref, refs] from the
\* references held, the old reference and the sink's context (0: none).
out_hwframes(refs, old, hw) ==
    LET u == av_buffer_unref(refs, old)
    IN  [ref |-> hw, refs |-> IF hw # 0 THEN av_buffer_ref(u, hw) ELSE u]

\* Mutant: the graph is rebuilt before the callback runs.
reconfig_after_cb_rebuilds_first(pp, g, v, refs, cbr) ==
    LET in == v.fmt_in
        out1 == IF cbr.rotate >= 0 THEN [in EXCEPT !.rotate = cbr.rotate] ELSE in
    IN  {LET p1 == IF cbr.upd # <<>>
                   THEN vf_lw_update_graph(r.p, cbr.upd[1].filter, cbr.upd[1].s)
                   ELSE r.p
         IN  IF ~r.ret \/ cbr.ret < 0
             THEN [ret |-> -1, p |-> p1, g |-> r.g, out |-> out1, cb_out |-> out1,
                   ref |-> v.out_hwframes_ref, refs |-> refs, built |-> r.built,
                   cb |-> cbr]
             ELSE LET l_out == r.built[1].l_out
                      l_in == r.built[1].l_in
                      h == out_hwframes(refs, v.out_hwframes_ref, l_out.hw_frames_ctx)
                  IN  [ret |-> 0,
                       p |-> [p1 EXCEPT !.timebase_in = l_in.time_base,
                                        !.timebase_out = l_out.time_base,
                                        !.par_in = l_in.sample_aspect_ratio],
                       g |-> r.g,
                       out |-> out_params(out1, l_out), cb_out |-> out1,
                       ref |-> h.ref, refs |-> h.refs,
                       built |-> r.built,
                       cb |-> cbr]
         : r \in recreate_graph(pp, g, in, v.in_hwframes_ref)}

\* reconfig(vf, in, out) with in = &vf->fmt_in, after the callback's outcome
\* cbr: [ret, p, g, out, ref, refs, built, cb], out being *out at return.
reconfig_after_cb(pp, g, v, refs, cbr) ==
    LET in == v.fmt_in
        p1 == IF cbr.upd # <<>>
              THEN vf_lw_update_graph(pp, cbr.upd[1].filter, cbr.upd[1].s) ELSE pp
        out1 == IF cbr.rotate >= 0 THEN [in EXCEPT !.rotate = cbr.rotate] ELSE in
    IN  IF cbr.ret < 0
        THEN {[ret |-> -1, p |-> p1, g |-> g, out |-> out1, cb_out |-> out1,
               ref |-> v.out_hwframes_ref, refs |-> refs, built |-> <<>>,
               cb |-> cbr]}
        ELSE {IF ~r.ret
              THEN [ret |-> -1, p |-> r.p, g |-> r.g, out |-> out1, cb_out |-> out1,
                    ref |-> v.out_hwframes_ref, refs |-> refs, built |-> <<>>,
                    cb |-> cbr]
              ELSE LET l_out == r.built[1].l_out
                       l_in == r.built[1].l_in
                       h == out_hwframes(refs, v.out_hwframes_ref, l_out.hw_frames_ctx)
                   IN  [ret |-> 0,
                        p |-> [r.p EXCEPT !.timebase_in = l_in.time_base,
                                          !.timebase_out = l_out.time_base,
                                          !.par_in = l_in.sample_aspect_ratio],
                        g |-> r.g,
                        out |-> out_params(out1, l_out), cb_out |-> out1,
                        ref |-> h.ref, refs |-> h.refs,
                        built |-> r.built,
                        cb |-> cbr]
              : r \in recreate_graph(p1, g, in, v.in_hwframes_ref)}

reconfig(pp, g, v, refs) ==
    UNION {reconfig_after_cb(pp, g, v, refs, cbr) :
              cbr \in IF pp.lw_reconfig_cb # "NULL" THEN CbOutcomes ELSE {NoCb}}

\* Mutant: a null frame is forwarded whether or not eof is set.
filter_ext_submit_no_eof_check(r, mpi) ==
    LET p2 == IF mpi = <<>> THEN [r.p EXCEPT !.eof = TRUE] ELSE r.p
    IN  IF r.p.graph = 0
        THEN {[ret |-> -1, p |-> r.p, g |-> r.g, sub |-> <<>>, built |-> r.built,
               crash |-> FALSE]}
        ELSE {[ret |-> add_ret,
               p |-> p2,
               g |-> av_buffersrc_add_frame(r.g, frame),
               sub |-> <<[graph |-> p2.in, frame |-> frame]>>,
               built |-> r.built,
               crash |-> FALSE] : frame \in mp_to_av(p2, mpi), add_ret \in {-1, 0}}

\* Mutant: p->graph is not tested.
filter_ext_submit_no_graph_check(r, mpi) ==
    LET p2 == IF mpi = <<>> THEN [r.p EXCEPT !.eof = TRUE] ELSE r.p
    IN  IF mpi = <<>> /\ r.p.eof
        THEN {[ret |-> 0, p |-> r.p, g |-> r.g, sub |-> <<>>, built |-> r.built,
               crash |-> FALSE]}
        ELSE IF p2.in = 0
        THEN {[ret |-> -1, p |-> p2, g |-> r.g, sub |-> <<>>, built |-> r.built,
               crash |-> TRUE]}
        ELSE {[ret |-> add_ret,
               p |-> p2,
               g |-> av_buffersrc_add_frame(r.g, frame),
               sub |-> <<[graph |-> p2.in, frame |-> frame]>>,
               built |-> r.built,
               crash |-> FALSE] : frame \in mp_to_av(p2, mpi), add_ret \in {-1, 0}}

\* filter_ext from "if (!p->graph)" on, r being what reset left.
filter_ext_submit(r, mpi) ==
    LET p2 == IF mpi = <<>> THEN [r.p EXCEPT !.eof = TRUE] ELSE r.p
    IN  IF r.p.graph = 0
        THEN {[ret |-> -1, p |-> r.p, g |-> r.g, sub |-> <<>>, built |-> r.built,
               crash |-> FALSE]}
        ELSE IF mpi = <<>> /\ r.p.eof
        THEN {[ret |-> 0, p |-> r.p, g |-> r.g, sub |-> <<>>, built |-> r.built,
               crash |-> FALSE]}
        ELSE IF p2.in = 0
        THEN {[ret |-> -1, p |-> p2, g |-> r.g, sub |-> <<>>, built |-> r.built,
               crash |-> TRUE]}
        ELSE {[ret |-> add_ret,
               p |-> p2,
               g |-> av_buffersrc_add_frame(r.g, frame),
               sub |-> <<[graph |-> p2.in, frame |-> frame]>>,
               built |-> r.built,
               crash |-> FALSE] : frame \in mp_to_av(p2, mpi), add_ret \in {-1, 0}}

\* filter_ext(vf, mpi): mpi is <<>> for NULL.
filter_ext(pp, g, v, mpi) ==
    UNION {filter_ext_submit(r, mpi) :
              r \in IF pp.eof /\ mpi # <<>> THEN reset(pp, g, v)
                    ELSE {[ret |-> FALSE, p |-> pp, g |-> g, built |-> <<>>]}}

\* Mutant: AVERROR_EOF is not recorded in p->eof.
filter_out_answer_eof_as_eagain(b, pp, g, ans) ==
    IF ans.err = "EAGAIN" \/ ans.err = "AVERROR_EOF"
    THEN {[ret |-> 0, sink |-> ans.err, got |-> <<>>,
           p |-> pp,
           g |-> [g EXCEPT !.sink_eof = @ \/ ans.err = "AVERROR_EOF"],
           added |-> <<>>, crash |-> FALSE]}
    ELSE IF ans.err # "OK"
    THEN {[ret |-> -1, sink |-> ans.err, got |-> <<>>, p |-> pp, g |-> g,
           added |-> <<>>, crash |-> FALSE]}
    ELSE {[ret |-> 0, sink |-> ans.err, got |-> ans.frame,
           p |-> get_metadata_from_av_frame(b, pp, ans.frame[1]),
           g |-> g,
           added |-> <<img>>,
           crash |-> FALSE] : img \in av_to_mp(pp, ans.frame[1])}

\* filter_out after the sink's answer ans.  added lists the arguments of
\* vf_add_output_frame (<<>>: NULL).
filter_out_answer(b, pp, g, ans) ==
    IF ans.err = "EAGAIN" \/ ans.err = "AVERROR_EOF"
    THEN {[ret |-> 0, sink |-> ans.err, got |-> <<>>,
           p |-> [pp EXCEPT !.eof = @ \/ ans.err = "AVERROR_EOF"],
           g |-> [g EXCEPT !.sink_eof = @ \/ ans.err = "AVERROR_EOF"],
           added |-> <<>>, crash |-> FALSE]}
    ELSE IF ans.err # "OK"
    THEN {[ret |-> -1, sink |-> ans.err, got |-> <<>>, p |-> pp, g |-> g,
           added |-> <<>>, crash |-> FALSE]}
    ELSE {[ret |-> 0, sink |-> ans.err, got |-> ans.frame,
           p |-> get_metadata_from_av_frame(b, pp, ans.frame[1]),
           g |-> g,
           added |-> <<img>>,
           crash |-> FALSE] : img \in av_to_mp(pp, ans.frame[1])}

\* filter_out(vf): reading from a null sink context is a crash.
filter_out(b, pp, g) ==
    IF pp.out = 0
    THEN {[ret |-> -1, sink |-> "none", got |-> <<>>, p |-> pp, g |-> g,
           added |-> <<>>, crash |-> TRUE]}
    ELSE UNION {filter_out_answer(b, pp, g, ans) : ans \in SinkAnswers}

\* control, case VFCTRL_SEEK_RESET.
control_seek_reset(pp, g, v) ==
    {[res |-> "CONTROL_OK", p |-> r.p, g |-> r.g, sent |-> <<>>,
      engine |-> 0, built |-> r.built] : r \in reset(pp, g, v)}

\* Mutant: the command is sent without looking at p->graph.
control_command_unchecked(b, pp, g) ==
    {[res |-> IF c.res >= 0 THEN "CONTROL_OK" ELSE "CONTROL_ERROR",
      p |-> pp, g |-> g, sent |-> c.sent, engine |-> c.res,
      built |-> <<>>] : c \in avfilter_graph_send_command(b, pp.graph)}

\* control, case VFCTRL_COMMAND: "break" leads to the final return.
control_command(b, pp, g) ==
    IF pp.graph = 0
    THEN {[res |-> "CONTROL_UNKNOWN", p |-> pp, g |-> g, sent |-> <<>>,
           engine |-> 0, built |-> <<>>]}
    ELSE {[res |-> IF c.res >= 0 THEN "CONTROL_OK" ELSE "CONTROL_ERROR",
           p |-> pp, g |-> g, sent |-> c.sent, engine |-> c.res,
           built |-> <<>>] : c \in avfilter_graph_send_command(b, pp.graph)}

\* Mutant: only vf->priv is tested.
control_get_metadata_priv_only(pp, g, v) ==
    {[res |-> IF v.priv # "NULL" THEN "CONTROL_OK" ELSE "CONTROL_NA",
      p |-> pp, g |-> g, sent |-> <<>>, engine |-> 0, built |-> <<>>]}

\* control, case VFCTRL_GET_METADATA.
control_get_metadata(pp, g, v) ==
    {[res |-> IF v.priv # "NULL" /\ pp.metadata # <<>>
              THEN "CONTROL_OK" ELSE "CONTROL_NA",
      p |-> pp, g |-> g, sent |-> <<>>, engine |-> 0, built |-> <<>>]}

\* control(vf, request, data): outcomes [res, p, g, sent, engine, built].
control(b, pp, g, v, request) ==
    CASE request = "VFCTRL_SEEK_RESET" -> control_seek_reset(pp, g, v)
      [] request = "VFCTRL_COMMAND" -> control_command(b, pp, g)
      [] request = "VFCTRL_GET_METADATA" -> control_get_metadata(pp, g, v)
      [] OTHER ->
            {[res |-> "CONTROL_UNKNOWN", p |-> pp, g |-> g, sent |-> <<>>,
              engine |-> 0, built |-> <<>>]}

\* uninit(vf).
uninit(pp, g, v) ==
    IF v.priv = "NULL" THEN [p |-> pp, g |-> g]
    ELSE [p |-> destroy_graph(pp), g |-> NoGraph]

query_format(fmt) == 1

----------------------------------------------------------------------------
(* The state machine *)

Builds == {"ffmpeg", "libav"}

\* The "graph" option of a lavfi filter: unset, or a string of at least one
\* character (M_OPT_MIN, .min = 1).
OptionGraphs == {"", "vflip"}

\* Arguments of vf_lw_set_graph: the filter (<<>>: NULL) and the options.
LwFilters == {<<>>, <<"rotate">>, <<"no_such_filter">>}

LwOpts == {"PI/2"}

\* What the caller configures the filter with: the input parameters and
\* vf->in_hwframes_ref, set for the hardware format only.
InConfigs ==
    {[fmt |-> f, hw |-> IF f.imgfmt = "IMGFMT_VAAPI" THEN 1 ELSE 0] : f \in InParams}

\* null_seen: filter_ext was called with a null frame; read_ok: filter_out
\* read a frame from the sink; delivered: filter_out added an output frame.
NoHist == [null_seen |-> FALSE, read_ok |-> FALSE, delivered |-> FALSE]

Init ==
    /\ build \in Builds
    /\ host = "created"
    /\ \E cfg \in OptionGraphs :
        \/ /\ vf = NewInstance("lavfi_priv", UnsetCallbacks)
           /\ p = [vf_priv_dflt EXCEPT !.cfg_graph = cfg]
        \/ /\ cfg = ""
           /\ vf = NewInstance("old_priv", OldCallbacks)
           /\ p = vf_priv_dflt
    /\ graph_obj = NoGraph
    /\ hw_refs = [c \in HwCtxIds |-> 0]
    /\ crashed = FALSE
    /\ hist = NoHist
    /\ last = NoCall

\* The history of a graph instance: it starts anew whenever the graph is
\* created or destroyed.
Hist(pp, h) == IF pp.graph # p.graph THEN NoHist ELSE h

\* The caller dispatches through the callbacks vf_open installed.
Installed(c) == ~crashed /\ vf.cb[c] = LavfiCallbacks[c] /\ vf.cb[c] # "NULL"

Wrapped == ~crashed /\ host \in {"opened", "configured"} /\ p.old_priv # "NULL"

Call(op) ==
    [NoCall EXCEPT !.op = op,
                   !.pre = [eof |-> p.eof, graph |-> p.graph,
                            metadata |-> p.metadata # <<>>]]

\* vf_info_lavfi.open for a filter created as "lavfi".
VfOpen ==
    /\ host = "created" /\ vf.priv = "lavfi_priv"
    /\ vf' = vf_open(vf)
    /\ host' = "opened"
    /\ last' = [Call("vf_open") EXCEPT !.ret = 1]
    /\ UNCHANGED <<build, p, graph_obj, hw_refs, crashed, hist>>

\* An old filter's open asks for the wrapper.
VfLwSetGraph ==
    /\ host = "created" /\ vf.priv = "old_priv"
    /\ \E filter \in LwFilters, s \in LwOpts :
        LET r == vf_lw_set_graph(vf, p, filter, s)
        IN  /\ vf' = r.vf
            /\ p' = r.p
            /\ host' = IF r.ret = 1 THEN "opened" ELSE "native"
            /\ last' = [Call("vf_lw_set_graph") EXCEPT !.ret = r.ret, !.filter = filter]
    /\ UNCHANGED <<build, graph_obj, hw_refs, crashed, hist>>

VfLwOldPriv ==
    /\ Wrapped
    /\ last' = [Call("vf_lw_old_priv") EXCEPT !.res = vf_lw_old_priv(p)]
    /\ UNCHANGED <<build, host, vf, p, graph_obj, hw_refs, crashed, hist>>

VfLwSetReconfigCb ==
    /\ Wrapped
    /\ p.lw_reconfig_cb = "NULL"
    /\ p' = vf_lw_set_reconfig_cb(p, "lw_reconfig")
    /\ last' = Call("vf_lw_set_reconfig_cb")
    /\ UNCHANGED <<build, host, vf, graph_obj, hw_refs, crashed, hist>>

\* The caller stores the new input parameters and hardware frames reference
\* in the instance and calls reconfig with in = &vf->fmt_in.
Reconfig ==
    /\ Installed("reconfig")
    /\ \E in \in InConfigs :
        LET v == [vf EXCEPT !.fmt_in = in.fmt, !.in_hwframes_ref = in.hw]
        IN  \E r \in reconfig(p, graph_obj, v, hw_refs) :
                /\ p' = r.p
                /\ graph_obj' = r.g
                /\ vf' = [v EXCEPT !.out_hwframes_ref = r.ref]
                /\ hw_refs' = r.refs
                /\ host' = IF r.ret = 0 THEN "configured" ELSE "opened"
                /\ hist' = Hist(r.p, hist)
                /\ last' = [Call("reconfig") EXCEPT !.ret = r.ret, !.built = r.built,
                                                    !.out = <<r.out, r.cb_out>>,
                                                    !.old_ref = vf.out_hwframes_ref,
                                                    !.cb = IF p.lw_reconfig_cb # "NULL"
                                                           THEN <<r.cb>> ELSE <<>>]
    /\ UNCHANGED <<build, crashed>>

\* filter_ext can be called whenever the callbacks are installed: before the
\* first reconfig, after a failed one and after uninit too.
FilterExt ==
    /\ Installed("filter_ext")
    /\ \E mpi \in {<<>>} \cup {<<f>> : f \in InFrames} :
        \E r \in filter_ext(p, graph_obj, vf, mpi) :
            /\ r.g.eos <= MaxEos
            /\ p' = r.p
            /\ graph_obj' = r.g
            /\ crashed' = r.crash
            /\ hist' = [Hist(r.p, hist) EXCEPT
                            !.null_seen = @ \/ (mpi = <<>> /\ r.p.graph # 0)]
            /\ last' = [Call("filter_ext") EXCEPT !.ret = r.ret, !.mpi = mpi,
                                                  !.built = r.built, !.sub = r.sub]
    /\ UNCHANGED <<build, host, vf, hw_refs>>

\* The caller reads output only from a filter whose last reconfig succeeded.
FilterOut ==
    /\ Installed("filter_out") /\ host = "configured"
    /\ \E r \in filter_out(build, p, graph_obj) :
        /\ p' = r.p
        /\ graph_obj' = r.g
        /\ crashed' = r.crash
        /\ hist' = [hist EXCEPT !.read_ok = @ \/ r.got # <<>>,
                                !.delivered = @ \/ (r.added # <<>> /\ r.added[1] # <<>>)]
        /\ last' = [Call("filter_out") EXCEPT !.ret = r.ret, !.sink = r.sink,
                                              !.got = r.got, !.added = r.added]
    /\ UNCHANGED <<build, host, vf, hw_refs>>

ControlRequests ==
    {"VFCTRL_SEEK_RESET", "VFCTRL_COMMAND", "VFCTRL_GET_METADATA", "VFCTRL_SCREENSHOT"}

Control ==
    /\ Installed("control")
    /\ \E request \in ControlRequests :
        \E r \in control(build, p, graph_obj, vf, request) :
            /\ p' = r.p
            /\ graph_obj' = r.g
            /\ hist' = Hist(r.p, hist)
            /\ last' = [Call(request) EXCEPT !.res = r.res, !.cmd = r.sent,
                                             !.ret = r.engine, !.built = r.built]
    /\ UNCHANGED <<build, host, vf, hw_refs, crashed>>

QueryFormat ==
    /\ Installed("query_format")
    /\ last' = [Call("query_format") EXCEPT !.ret = query_format("IMGFMT_420P")]
    /\ UNCHANGED <<build, host, vf, p, graph_obj, hw_refs, crashed, hist>>

\* After uninit the caller has to reconfigure before it reads output again.
Uninit ==
    /\ Installed("uninit")
    /\ LET r == uninit(p, graph_obj, vf)
       IN  /\ p' = r.p
           /\ graph_obj' = r.g
    /\ host' = "opened"
    /\ hist' = NoHist
    /\ last' = Call("uninit")
    /\ UNCHANGED <<build, vf, hw_refs, crashed>>

Next ==
    \/ VfOpen
    \/ VfLwSetGraph
    \/ VfLwOldPriv
    \/ VfLwSetReconfigCb
    \/ Reconfig
    \/ FilterExt
    \/ FilterOut
    \/ Control
    \/ QueryFormat
    \/ Uninit

Spec == Init /\ [][Next]_vars

----------------------------------------------------------------------------
(* Properties.  In a step of a callback, last' names the call and p, vf,   *)
(* graph_obj are the state it started from.                                *)

\* The graph b was built from the graph string and the instance's current
\* input parameters and hardware frames reference.
BuiltFromInput(b, filters, v) ==
    /\ b.filters = filters
    /\ b.format = imgfmt2pixfmt(v.fmt_in.imgfmt)
    /\ b.w = v.fmt_in.w /\ b.h = v.fmt_in.h
    /\ b.sample_aspect_ratio = [num |-> v.fmt_in.p_w, den |-> v.fmt_in.p_h]
    /\ b.time_base = AV_TIME_BASE_Q
    /\ b.hw_frames_ctx = v.in_hwframes_ref

\* filter_ext was called with a frame while eof was set.
EofOverrideCall == last.op = "filter_ext" /\ last.mpi # <<>> /\ last.pre.eof

\* C1 as stated: after filter_ext is called with a non-null frame while eof
\* is set, the graph has been recreated, eof is false, and the frame has
\* been submitted to a graph instance that has neither received nor
\* reported end-of-stream.
C1_Original ==
    EofOverrideCall =>
        /\ last.built # <<>>
        /\ p.graph = last.built[1].graph
        /\ p.graph # last.pre.graph
        /\ ~p.eof
        /\ Len(last.sub) = 1
        /\ last.sub[1].graph = p.graph
        /\ last.sub[1].frame # <<>>
        /\ graph_obj.id = p.graph /\ graph_obj.eos = 0 /\ ~graph_obj.sink_eof

\* C1 amended: after filter_ext is called with a non-null frame while eof is
\* set, one of three things has happened.  The graph was rebuilt: eof is
\* false and what was submitted (the frame or, if its conversion ran out of
\* memory, a null frame) went to the new instance, which had neither
\* received nor reported end-of-stream before.  Or the engine failed to
\* build a graph: no graph is left, eof is false, the call returned -1 and
\* nothing was submitted.  Or the graph string is empty: the old graph and
\* eof are as they were and the submission went to that graph.
C1_EofOverride ==
    EofOverrideCall =>
        \/ /\ last.built # <<>>
           /\ p.graph = last.built[1].graph
           /\ p.graph # last.pre.graph
           /\ ~p.eof
           /\ Len(last.sub) = 1
           /\ last.sub[1].graph = p.graph
           /\ graph_obj.id = p.graph
           /\ graph_obj.eos = (IF last.sub[1].frame = <<>> THEN 1 ELSE 0)
           /\ ~graph_obj.sink_eof
        \/ /\ last.built = <<>>
           /\ p.cfg_graph # "" /\ vf.fmt_in.imgfmt # "IMGFMT_NONE"
           /\ p.graph = 0 /\ p.in = 0 /\ p.out = 0 /\ graph_obj = NoGraph
           /\ ~p.eof
           /\ last.ret = -1
           /\ last.sub = <<>>
        \/ /\ last.built = <<>>
           /\ p.cfg_graph = ""
           /\ p.graph = last.pre.graph /\ p.graph # 0 /\ graph_obj.id = p.graph
           /\ p.eof
           /\ Len(last.sub) = 1
           /\ last.sub[1].graph = p.graph

\* C1 witness: an EOF override that rebuilt the graph and submitted the frame.
C1_Witness ==
    /\ EofOverrideCall
    /\ last.built # <<>>
    /\ last.ret = 0
    /\ Len(last.sub) = 1 /\ last.sub[1].frame # <<>>
    /\ ~p.eof

\* A step that is a filter_ext call with a null frame on a configured graph.
NullFrameCall ==
    last'.op = "filter_ext" /\ last'.mpi = <<>> /\ p.graph # 0

\* Exactly one end-of-stream signal went to the current buffer source and
\* eof is set; nothing else changed.
ForwardsOneEos ==
    /\ p' = [p EXCEPT !.eof = TRUE]
    /\ last'.sub = <<[graph |-> p.in, frame |-> <<>>]>>
    /\ graph_obj' = [graph_obj EXCEPT !.eos = @ + 1]

\* The call returned 0, sent nothing to the buffer source and changed no
\* adapter state.
ForwardsNothing ==
    /\ last'.ret = 0
    /\ last'.sub = <<>>
    /\ UNCHANGED <<p, graph_obj, vf, hw_refs, host>>

\* C2 as stated: with a graph configured, the first filter_ext call with a
\* null frame sets eof and forwards exactly one end-of-stream signal; every
\* further null-frame call while eof is set returns 0, forwards nothing and
\* leaves the adapter state unchanged.
C2_Original ==
    [][NullFrameCall =>
        /\ ~hist.null_seen => ForwardsOneEos
        /\ (hist.null_seen /\ p.eof) => ForwardsNothing]_vars

\* C2 amended: with a graph configured, a filter_ext call with a null frame
\* made while eof is clear sets eof and forwards exactly one end-of-stream
\* signal to the buffer source; every filter_ext call with a null frame
\* while eof is set (by an earlier null frame or by the sink's AVERROR_EOF)
\* returns 0, forwards nothing and leaves the adapter state unchanged.
C2_EofIdempotent ==
    [][NullFrameCall =>
        IF p.eof THEN ForwardsNothing ELSE ForwardsOneEos]_vars

\* C2 witness: a null frame arrived while eof was set and nothing was forwarded.
C2_Witness ==
    /\ last.op = "filter_ext" /\ last.mpi = <<>>
    /\ last.pre.eof /\ last.pre.graph # 0
    /\ hist.null_seen /\ graph_obj.eos = 1
    /\ last.ret = 0 /\ last.sub = <<>>

\* The step replaced the graph by a fresh one built from the current input.
ReplacedByFresh ==
    /\ last'.built # <<>>
    /\ p'.graph = last'.built[1].graph /\ p'.in = p'.graph /\ p'.out = p'.graph
    /\ p'.graph # p.graph
    /\ BuiltFromInput(last'.built[1], p.cfg_graph, vf)
    /\ graph_obj' = NewGraph(last'.built[1])
    /\ ~p'.eof
    /\ p'.metadata = <<>>

\* The step destroyed the graph and built none.
DestroyedOnly ==
    /\ last'.built = <<>>
    /\ p' = [p EXCEPT !.graph = 0, !.in = 0, !.out = 0,
                      !.metadata = <<>>, !.eof = FALSE]
    /\ graph_obj' = NoGraph

\* C3 as stated: a seek reset always returns CONTROL_OK; with a graph
\* configured and the input format known it replaces the graph by a fresh
\* one built from the current input parameters, eof false, metadata
\* discarded; with no graph it changes no adapter state and creates no graph.
C3_Original ==
    [][last'.op = "VFCTRL_SEEK_RESET" =>
        /\ last'.res = "CONTROL_OK"
        /\ (p.graph # 0 /\ vf.fmt_in.imgfmt # "IMGFMT_NONE") => ReplacedByFresh
        /\ p.graph = 0 => (last'.built = <<>> /\ UNCHANGED <<p, graph_obj, vf, hw_refs>>)]_vars

\* C3 amended: a seek reset always returns CONTROL_OK; with a graph
\* configured, the input format known and a non-empty graph string it
\* destroys the graph (eof false, metadata discarded) and either replaces it
\* by a fresh one built from the current input parameters or, when the
\* engine fails to build one, leaves no graph; in every other case (no
\* graph, no format, no graph string) it changes no adapter state and
\* creates no graph.
C3_SeekReset ==
    [][last'.op = "VFCTRL_SEEK_RESET" =>
        /\ last'.res = "CONTROL_OK"
        /\ UNCHANGED <<vf, hw_refs, host>>
        /\ IF p.graph # 0 /\ vf.fmt_in.imgfmt # "IMGFMT_NONE" /\ p.cfg_graph # ""
           THEN ReplacedByFresh \/ DestroyedOnly
           ELSE last'.built = <<>> /\ UNCHANGED <<p, graph_obj>>]_vars

\* C3 witness: a seek reset replaced a graph that had reached eof and had
\* collected metadata.
C3_Witness ==
    /\ last.op = "VFCTRL_SEEK_RESET"
    /\ last.pre.graph # 0 /\ last.pre.eof /\ last.pre.metadata
    /\ last.built # <<>> /\ p.graph = last.built[1].graph
    /\ ~p.eof /\ p.metadata = <<>>

\* The command reached the engine, addressed to all filters of the current graph.
SentToAll == last'.cmd = <<[graph |-> p.graph, target |-> "all"]>>

\* C4 as stated: with no graph the command is not forwarded and control
\* returns CONTROL_UNKNOWN; with a graph it is sent to all filters of the
\* current graph and control returns CONTROL_OK exactly when the engine's
\* result is >= 0 and CONTROL_ERROR otherwise; graph, eof and metadata are
\* unchanged.
C4_Original ==
    [][last'.op = "VFCTRL_COMMAND" =>
        /\ UNCHANGED <<p, graph_obj>>
        /\ IF p.graph = 0
           THEN last'.cmd = <<>> /\ last'.res = "CONTROL_UNKNOWN"
           ELSE /\ SentToAll
                /\ last'.res = (IF last'.ret >= 0 THEN "CONTROL_OK" ELSE "CONTROL_ERROR")]_vars

\* C4 amended: with no graph the command is not forwarded and control
\* returns CONTROL_UNKNOWN; with a graph, a build against FFmpeg sends it to
\* all filters of the current graph and returns CONTROL_OK exactly when the
\* engine's result is >= 0 and CONTROL_ERROR otherwise, while a build
\* against Libav forwards nothing and returns CONTROL_ERROR; graph, eof and
\* metadata are unchanged.
C4_Command ==
    [][last'.op = "VFCTRL_COMMAND" =>
        /\ UNCHANGED <<p, graph_obj, vf, hw_refs, host>>
        /\ IF p.graph = 0
           THEN last'.cmd = <<>> /\ last'.res = "CONTROL_UNKNOWN"
           ELSE IF build = "ffmpeg"
           THEN /\ SentToAll
                /\ last'.res = (IF last'.ret >= 0 THEN "CONTROL_OK" ELSE "CONTROL_ERROR")
           ELSE last'.cmd = <<>> /\ last'.res = "CONTROL_ERROR"]_vars

\* C4 witness: a command was forwarded to a configured graph and the engine
\* refused it.
C4_Witness ==
    /\ last.op = "VFCTRL_COMMAND"
    /\ last.pre.graph # 0
    /\ last.cmd # <<>> /\ last.ret < 0
    /\ last.res = "CONTROL_ERROR"

\* C5: vf_lw_set_graph is all-or-nothing.  When the named filter is not
\* available it returns -1 and vf->priv and every callback are as before; on
\* success it returns 1, every callback has been overwritten with the lavfi
\* one, and the previous private data is what vf_lw_old_priv returns from
\* then on.
C5_SetGraph ==
    [][/\ last'.op = "vf_lw_set_graph" =>
            IF last'.filter # <<>> /\ last'.filter[1] \notin RegisteredFilters
            THEN last'.ret = -1 /\ UNCHANGED <<vf, p>>
            ELSE /\ last'.ret = 1
                 /\ \A c \in DOMAIN LavfiCallbacks :
                        vf'.cb[c] = LavfiCallbacks[c] /\ vf'.cb[c] # vf.cb[c]
                 /\ vf'.priv # vf.priv
                 /\ p'.old_priv = vf.priv
       /\ last'.op = "vf_lw_old_priv" => last'.res = p.old_priv
       /\ p.old_priv # "NULL" => p'.old_priv = p.old_priv]_vars

\* C5 witness: long after a successful vf_lw_set_graph, vf_lw_old_priv
\* returns the old filter's private data.
C5_Witness ==
    /\ last.op = "vf_lw_old_priv"
    /\ last.res = "old_priv"
    /\ vf.cb = LavfiCallbacks
    /\ p.graph # 0 /\ p.eof

\* reconfig returned 0: b is the graph it built, out is *out at return and
\* cbo is *out as the wrapper's callback left it.
ReconfigOk == last.op = "reconfig" /\ last.ret = 0 /\ last.built # <<>>

\* The adapter's timebases and input aspect ratio are those of graph b.
RefreshedFrom(b) ==
    /\ p.graph = b.graph
    /\ p.timebase_in = b.l_in.time_base
    /\ p.timebase_out = b.l_out.time_base
    /\ p.par_in = b.l_in.sample_aspect_ratio

\* The callback's *out is *in, but for the rotation a callback may set.
PassedThrough(cbo) ==
    /\ p.lw_reconfig_cb = "NULL" => cbo = vf.fmt_in
    /\ [cbo EXCEPT !.rotate = vf.fmt_in.rotate] = vf.fmt_in

\* C6 as stated: on a successful reconfig the output parameters are the
\* input parameters (as adjusted by the wrapper's callback) except that
\* width, height, pixel aspect ratio and image format come from the buffer
\* sink's input link of the new graph; the adapter's timebases and input
\* aspect ratio are refreshed from that graph.
C6_Original ==
    ReconfigOk =>
        LET b == last.built[1]
            out == last.out[1]
            cbo == last.out[2]
        IN  /\ PassedThrough(cbo)
            /\ out = [cbo EXCEPT !.w = b.l_out.w,
                                 !.h = b.l_out.h,
                                 !.p_w = b.l_out.sample_aspect_ratio.num,
                                 !.p_h = b.l_out.sample_aspect_ratio.den,
                                 !.imgfmt = pixfmt2imgfmt(b.l_out.format)]
            /\ RefreshedFrom(b)

\* C6 amended: on a successful reconfig the output parameters are the input
\* parameters (as adjusted by the wrapper's callback) except that width,
\* height, pixel aspect ratio and image format come from the buffer sink's
\* input link of the new graph and that, when that link has a hardware
\* frames context, the hardware sub-format is that context's software
\* format; the adapter's timebases and input aspect ratio are refreshed from
\* that graph.
C6_Reconfig ==
    ReconfigOk =>
        LET b == last.built[1]
            out == last.out[1]
            cbo == last.out[2]
        IN  /\ PassedThrough(cbo)
            /\ out = [cbo EXCEPT !.w = b.l_out.w,
                                 !.h = b.l_out.h,
                                 !.p_w = b.l_out.sample_aspect_ratio.num,
                                 !.p_h = b.l_out.sample_aspect_ratio.den,
                                 !.imgfmt = pixfmt2imgfmt(b.l_out.format),
                                 !.hw_subfmt =
                                    IF b.l_out.hw_frames_ctx # 0
                                    THEN pixfmt2imgfmt(sw_format(b.l_out.hw_frames_ctx))
                                    ELSE cbo.hw_subfmt]
            /\ RefreshedFrom(b)

\* C6 witness: a successful reconfig whose callback adjusted the rotation
\* and whose sink has a hardware frames context.
C6_Witness ==
    /\ ReconfigOk
    /\ last.out[2].rotate = 180 /\ vf.fmt_in.rotate = 90
    /\ last.built[1].l_out.hw_frames_ctx # 0
    /\ last.out[1].w = 7 /\ last.out[1].hw_subfmt = "IMGFMT_420P"

SubmittedPts(img) ==
    IF img.pts = MP_NOPTS_VALUE THEN AV_NOPTS_VALUE
    ELSE Trunc(DblMul(img.pts, av_q2d(av_inv_q(p.timebase_in))))

\* Present timestamps are rescaled by the output timebase.
OutputPts(frame) ==
    IF frame.pts = AV_NOPTS_VALUE THEN MP_NOPTS_VALUE
    ELSE DblMul(IntToDbl(frame.pts), av_q2d(p.timebase_out))

\* A missing or present timestamp reaches the buffer source as stated.
PtsIn ==
    (last.op = "filter_ext" /\ last.sub # <<>> /\ last.sub[1].frame # <<>>) =>
        last.sub[1].frame[1].pts = SubmittedPts(last.mpi[1])

\* A missing or present timestamp leaves the buffer sink as stated.
PtsOut ==
    (last.op = "filter_out" /\ last.added # <<>> /\ last.added[1] # <<>>) =>
        last.added[1][1].pts = OutputPts(last.got[1])

\* Every submitted frame carries the input link's sample aspect ratio.
SarIn ==
    (last.op = "filter_ext" /\ last.sub # <<>> /\ last.sub[1].frame # <<>>) =>
        last.sub[1].frame[1].sample_aspect_ratio = graph_obj.sample_aspect_ratio

\* C8 as stated: a frame entering with pts MP_NOPTS_VALUE is submitted with
\* AV_NOPTS_VALUE, a frame leaving the sink with AV_NOPTS_VALUE is output
\* with MP_NOPTS_VALUE, present timestamps are rescaled by the input and
\* output timebase, and every submitted frame carries the input link's
\* sample aspect ratio.
C8_Original == PtsIn /\ PtsOut /\ SarIn

\* filter_out returned without crashing.
FilterOutReturned == last.op = "filter_out" /\ last.sink # "none"

\* C9 as stated: EAGAIN returns 0, adds no frame, eof unchanged; AVERROR_EOF
\* returns 0, adds no frame, sets eof; any other negative result returns -1,
\* adds no frame, eof unchanged; a successful read returns 0 and adds exactly
\* one output frame; filter_out never clears eof.
C9_Original ==
    FilterOutReturned =>
        /\ last.pre.eof => p.eof
        /\ CASE last.sink = "EAGAIN" ->
                    last.ret = 0 /\ last.added = <<>> /\ p.eof = last.pre.eof
             [] last.sink = "AVERROR_EOF" ->
                    last.ret = 0 /\ last.added = <<>> /\ p.eof
             [] last.sink = "OK" ->
                    last.ret = 0 /\ Len(last.added) = 1 /\ last.added[1] # <<>>
             [] OTHER ->
                    last.ret = -1 /\ last.added = <<>> /\ p.eof = last.pre.eof

\* C9 amended: EAGAIN returns 0, adds no frame, eof unchanged; AVERROR_EOF
\* returns 0, adds no frame, sets eof; any other negative result returns -1,
\* adds no frame, eof unchanged; a successful read returns 0, leaves eof
\* unchanged and hands vf_add_output_frame exactly one value, the converted
\* frame or, when the conversion ran out of memory, NULL (no frame is then
\* added); filter_out never clears eof.
C9_FilterOut ==
    FilterOutReturned =>
        /\ last.pre.eof => p.eof
        /\ CASE last.sink = "EAGAIN" ->
                    last.ret = 0 /\ last.added = <<>> /\ p.eof = last.pre.eof
             [] last.sink = "AVERROR_EOF" ->
                    last.ret = 0 /\ last.added = <<>> /\ p.eof
             [] last.sink = "OK" ->
                    /\ last.ret = 0 /\ p.eof = last.pre.eof
                    /\ Len(last.added) = 1
                    /\ last.added[1] \in {<<>>, <<[pts |-> OutputPts(last.got[1])]>>}
             [] OTHER ->
                    last.ret = -1 /\ last.added = <<>> /\ p.eof = last.pre.eof

\* C9 witness: the sink reported AVERROR_EOF to an adapter whose eof was clear.
C9_Witness ==
    /\ FilterOutReturned
    /\ last.sink = "AVERROR_EOF" /\ ~last.pre.eof /\ p.eof
    /\ last.ret = 0 /\ last.added = <<>>

\* C10 as stated: VFCTRL_GET_METADATA returns CONTROL_OK exactly when
\* filter_out has delivered at least one frame since the graph was last
\* created or destroyed and CONTROL_NA otherwise; the request changes no
\* adapter state.
C10_Original ==
    [][last'.op = "VFCTRL_GET_METADATA" =>
        /\ last'.res = (IF hist.delivered THEN "CONTROL_OK" ELSE "CONTROL_NA")
        /\ UNCHANGED <<p, graph_obj, vf, hw_refs>>]_vars

\* C10 amended: in a build against FFmpeg, VFCTRL_GET_METADATA returns
\* CONTROL_OK exactly when filter_out has read at least one frame from the
\* sink since the graph was last created or destroyed (whether or not the
\* frame's conversion succeeded) and CONTROL_NA otherwise; in a build
\* against Libav it always returns CONTROL_NA; the request changes no
\* adapter state.
C10_Metadata ==
    [][last'.op = "VFCTRL_GET_METADATA" =>
        /\ last'.res = (IF build = "ffmpeg" /\ hist.read_ok
                        THEN "CONTROL_OK" ELSE "CONTROL_NA")
        /\ (p.metadata # <<>>) = (build = "ffmpeg" /\ hist.read_ok)
        /\ UNCHANGED <<p, graph_obj, vf, hw_refs, host, hist>>]_vars

\* C10 witness: metadata was reported for a graph that replaced an earlier one.
C10_Witness ==
    /\ last.op = "VFCTRL_GET_METADATA"
    /\ last.res = "CONTROL_OK"
    /\ hist.delivered
    /\ p.graph = 2

\* C11: whenever filter_ext is called while no graph is configured, for a
\* frame and for a null frame alike it returns -1, submits nothing to any
\* buffer source, builds no graph and leaves the adapter state (graph, eof
\* and metadata included) unchanged.
C11_NoGraphNoInject ==
    [][(last'.op = "filter_ext" /\ p.graph = 0) =>
        /\ last'.ret = -1
        /\ last'.sub = <<>>
        /\ last'.built = <<>>
        /\ ~crashed'
        /\ UNCHANGED <<p, graph_obj, vf, hw_refs, host>>]_vars

\* C11 witness: a frame was refused after a seek reset or an EOF override
\* had failed to rebuild the graph of a configured filter.
C11_Witness ==
    /\ last.op = "filter_ext" /\ last.mpi # <<>>
    /\ last.pre.graph = 0 /\ p.graph = 0
    /\ host = "configured"
    /\ last.ret = -1 /\ last.sub = <<>>

\* C12 as stated: in every reachable state, if the buffer source of the
\* current graph instance has been sent an end-of-stream signal then eof is
\* true, and each graph instance is sent end-of-stream at most once; the
\* path where the conversion of a non-null frame fails is included.
C12_Original ==
    /\ (p.graph # 0 /\ graph_obj.eos > 0) => p.eof
    /\ graph_obj.eos <= 1

\* C13 as stated: with filter_out only called after a reconfig has succeeded,
\* the sink node is non-null whenever filter_out reads from it and the
\* source node is non-null whenever filter_ext submits to it, even after a
\* graph recreation by a seek reset or by the EOF override has failed.
C13_Original ==
    [][/\ last'.op = "filter_out" => p.out # 0
       /\ (last'.op = "filter_ext" /\ last'.sub # <<>>) => last'.sub[1].graph # 0
       /\ ~crashed']_vars

\* The step is a reconfig call that returned -1.
ReconfigFailed == last'.op = "reconfig" /\ last'.ret = -1

\* The wrapper's callback ran in this reconfig and returned a negative value.
CallbackFailed == last'.cb # <<>> /\ last'.cb[1].ret < 0

\* Graph, source node and sink node are all null after the step.
NoGraphLeft ==
    /\ p'.graph = 0 /\ p'.in = 0 /\ p'.out = 0
    /\ graph_obj' = NoGraph

\* The step left the graph, its nodes, eof and the metadata as they were.
GraphUntouched ==
    /\ [p' EXCEPT !.cfg_graph = p.cfg_graph] = p
    /\ graph_obj' = graph_obj
    /\ last'.built = <<>>

\* C14 as stated: whenever reconfig returns -1 (callback failed, graph string
\* empty, or construction failed) graph, source node and sink node are all
\* null afterwards, and every filter_ext call returns -1 until a later
\* reconfig succeeds.
C14_Original ==
    [][/\ ReconfigFailed => NoGraphLeft
       /\ (last'.op = "filter_ext" /\ host = "opened") => last'.ret = -1]_vars

\* C14 amended: when reconfig returns -1 because graph construction failed,
\* graph, source node and sink node are all null afterwards; when it returns
\* -1 because the wrapper's callback failed or the graph string is empty,
\* the graph, its nodes, eof and the metadata are exactly as before the call
\* (a previously built graph stays usable).  Once the graph is null it stays
\* null, and every filter_ext call returns -1, until a reconfig succeeds.
C14_FailedReconfig ==
    [][/\ ReconfigFailed =>
            IF CallbackFailed \/ p'.cfg_graph = ""
            THEN GraphUntouched
            ELSE NoGraphLeft
       /\ (p.graph = 0 /\ ~(last'.op = "reconfig" /\ last'.ret = 0)) => p'.graph = 0
       /\ (p.graph = 0 /\ last'.op = "filter_ext") => last'.ret = -1]_vars

\* C14 witness: a reconfig of a filter that had a graph failed in the
\* construction of the new one and left none.
C14_Witness ==
    /\ last.op = "reconfig" /\ last.ret = -1
    /\ last.pre.graph # 0
    /\ p.graph = 0 /\ p.in = 0 /\ p.out = 0
    /\ p.cfg_graph # ""

\* C15: in every state between callbacks the graph, the buffer source node
\* and the buffer sink node are either all null, and then the engine holds
\* no graph of this filter, or all non-null, and then both nodes belong to
\* the current graph instance, which is the one the engine holds.
C15_AllOrNothing ==
    \/ /\ p.graph = 0 /\ p.in = 0 /\ p.out = 0
       /\ graph_obj = NoGraph
    \/ /\ p.graph # 0 /\ p.in # 0 /\ p.out # 0
       /\ p.in = p.graph /\ p.out = p.graph
       /\ graph_obj.id = p.graph

\* C15 witness: a seek reset or an EOF override replaced the graph, and the
\* nodes are those of the new instance.
C15_Witness ==
    /\ last.op \in {"VFCTRL_SEEK_RESET", "filter_ext"}
    /\ last.pre.graph # 0 /\ last.built # <<>>
    /\ p.graph # last.pre.graph
    /\ p.in = p.graph /\ p.out = p.graph /\ graph_obj.id = p.graph

\* C16: in reconfig the wrapper's callback runs before the graph is rebuilt.
\* A graph string installed by vf_lw_update_graph from inside the callback
\* is the adapter's graph string afterwards and the one the graph built by
\* this same reconfig was parsed from; if the callback returns a negative
\* value, reconfig returns -1 and the existing graph is neither destroyed
\* nor rebuilt.
C16_CallbackFirst ==
    [][(last'.op = "reconfig" /\ last'.cb # <<>>) =>
        LET cb == last'.cb[1]
        IN  /\ cb.ret < 0 => (last'.ret = -1 /\ GraphUntouched)
            /\ (cb.ret >= 0 /\ cb.upd # <<>>) =>
                 LET installed == GraphString(cb.upd[1].filter, cb.upd[1].s)
                 IN  /\ p'.cfg_graph = installed
                     /\ last'.built # <<>> =>
                            /\ last'.built[1].filters = installed
                            /\ p'.graph = last'.built[1].graph
                     /\ last'.ret = 0 => last'.built # <<>>]_vars

\* C16 witness: the callback replaced the graph string and this reconfig
\* built its graph from the new one.
C16_Witness ==
    /\ last.op = "reconfig" /\ last.ret = 0
    /\ last.cb # <<>> /\ last.cb[1].upd # <<>>
    /\ last.built # <<>>
    /\ last.built[1].filters = "rotate=PI"
    /\ p.cfg_graph = "rotate=PI"

====
